---- MODULE Spec2Model ----
(***************************************************************************)
(* Model of the SA-Lotto-Scraper service (services/geminiService.ts):      *)
(* fixTruncatedJson, cleanJsonString and generateLotteryData.              *)
(*                                                                         *)
(* Text is a sequence of one-character strings.  The code indexes strings   *)
(* from 0; the model keeps the code's 0-based index i and reads json[i+1]. *)
(***************************************************************************)
EXTENDS Integers, Sequences, FiniteSets

VARIABLES
    pc,               \* position of the modelled function
    json,             \* fixTruncatedJson: its argument
    i,                \* fixTruncatedJson: loop index (0-based)
    stack,            \* fixTruncatedJson: stack of expected closers
    isInsideString,   \* fixTruncatedJson: inside a string literal
    escaped,          \* fixTruncatedJson: previous char was an unescaped backslash
    repaired,         \* fixTruncatedJson: the string being returned
    str,              \* cleanJsonString: its argument
    cleaned,          \* cleanJsonString: the text being normalized
    apiKey,           \* generateLotteryData: process.env.API_KEY is set
    upstream,         \* generateLotteryData: "none", "resolved" or "rejected"
    responseText,     \* generateLotteryData: response.text
    rawText,          \* generateLotteryData: rawText
    cleanedText,      \* generateLotteryData: cleanedText
    data,             \* generateLotteryData: outcome of JSON.parse(cleanedText)
    result,           \* generateLotteryData: the value the promise resolves to
    mounted,          \* App: "initial", "mounted" or "unmounted"
    loadingState,     \* App: the loading state after the queued setLoading calls
    renderedLoading,  \* App: loading as of the last committed render
    error,            \* App: the error state
    appDraws,         \* App: the draws state ("none" or "some")
    loadingStep,      \* App: the loadingStep state
    loadingIntervalRef, \* App: loadingIntervalRef.current (0 for null)
    timers,           \* App: ids of the intervals that are still active
    inFlight,         \* App: ids of the fetchData calls awaiting their result
    started           \* App: number of fetchData calls so far

repairVars == <<json, i, stack, isInsideString, escaped, repaired>>
cleanVars == <<str, cleaned>>
genVars ==
    <<apiKey, upstream, responseText, rawText, cleanedText, data, result>>
appVars ==
    <<mounted, loadingState, renderedLoading, error, appDraws, loadingStep,
      loadingIntervalRef, timers, inFlight, started>>
vars == <<pc, repairVars, cleanVars, genVars, appVars>>

\* App.tsx lines 19-30: the state of App before its first effect has run.
AppInitialState ==
    /\ mounted = "initial"
    /\ loadingState = FALSE
    /\ renderedLoading = FALSE
    /\ error = "null"
    /\ appDraws = "none"
    /\ loadingStep = 0
    /\ loadingIntervalRef = 0
    /\ timers = {}
    /\ inFlight = {}
    /\ started = 0

-----------------------------------------------------------------------------
(* Characters *)

QUOTE == "\""
BSLASH == "\\"
LBRACE == "{"
RBRACE == "}"
LBRACK == "["
RBRACK == "]"

\* The characters fixTruncatedJson tells apart, and one ordinary character.
ScanAlphabet == {LBRACE, RBRACE, LBRACK, RBRACK, QUOTE, BSLASH, "a"}

\* Longest text drawn exhaustively over ScanAlphabet.
MaxLen == 4

TextsUpTo(alphabet, n) == UNION {[1..k -> alphabet] : k \in 0..n}

-----------------------------------------------------------------------------
(* JSON.parse (lines 62 and 126): the ECMAScript JSON grammar over text.   *)
(* A parsed value is a tagged tuple: <<"null">>, <<"bool", b>>,            *)
(* <<"num", n>> (integer lexeme), <<"real", lexeme>> (a lexeme with a      *)
(* fraction or an exponent), <<"str", chars>>, <<"arr", values>>,          *)
(* <<"obj", <<key, value>> pairs in insertion order>>.                     *)
(* \uXXXX escapes are not modelled: no text of the model has a backslash   *)
(* followed by u.                                                          *)

VNull == <<"null">>
VBool(b) == <<"bool", b>>
VNum(n) == <<"num", n>>
VReal(lexeme) == <<"real", lexeme>>
VStr(chars) == <<"str", chars>>
VArr(values) == <<"arr", values>>
VObj(pairs) == <<"obj", pairs>>

TagOf(v) == v[1]

\* The undefined value (a missing property).
VUndefined == <<"undefined">>

\* data and result before generateLotteryData has set them.
NoData == [ok |-> FALSE, val |-> VUndefined]
NoResult == [draws |-> << >>, errorDetail |-> "pending"]

JsonWs == {" ", "\n", "\t", "\r"}
Digits == {"0", "1", "2", "3", "4", "5", "6", "7", "8", "9"}
\* Raw characters a JSON string literal may not hold (U+0000..U+001F);
\* "BS" names the backspace character.
ControlChars == {"\n", "\t", "\r", "\f", "BS"}

DigitVal(c) ==
    CASE c = "0" -> 0 [] c = "1" -> 1 [] c = "2" -> 2 [] c = "3" -> 3
      [] c = "4" -> 4 [] c = "5" -> 5 [] c = "6" -> 6 [] c = "7" -> 7
      [] c = "8" -> 8 [] c = "9" -> 9

\* The character a two-character escape \c stands for.
Unescape(c) ==
    CASE c = QUOTE -> QUOTE [] c = BSLASH -> BSLASH [] c = "/" -> "/"
      [] c = "b" -> "BS" [] c = "f" -> "\f" [] c = "n" -> "\n"
      [] c = "r" -> "\r" [] c = "t" -> "\t"

EscapeChars == {QUOTE, BSLASH, "/", "b", "f", "n", "r", "t"}

ParseFail == [ok |-> FALSE, pos |-> 0, val |-> VNull]
ParseOk(p, v) == [ok |-> TRUE, pos |-> p, val |-> v]

At(t, p) == IF p >= 1 /\ p <= Len(t) THEN t[p] ELSE "EOF"

RECURSIVE SkipWs(_, _)
SkipWs(t, p) == IF At(t, p) \in JsonWs THEN SkipWs(t, p + 1) ELSE p

\* The body of a string literal from position p (after the opening quote).
RECURSIVE StringBody(_, _, _)
StringBody(t, p, acc) ==
    LET c == At(t, p) IN
    IF c = "EOF" \/ c \in ControlChars THEN ParseFail
    ELSE IF c = QUOTE THEN ParseOk(p + 1, acc)
    ELSE IF c = BSLASH
         THEN IF At(t, p + 1) \in EscapeChars
              THEN StringBody(t, p + 2, Append(acc, Unescape(At(t, p + 1))))
              ELSE ParseFail
    ELSE StringBody(t, p + 1, Append(acc, c))

RECURSIVE DigitsEnd(_, _)
DigitsEnd(t, p) == IF At(t, p) \in Digits THEN DigitsEnd(t, p + 1) ELSE p

RECURSIVE DigitsValue(_, _, _)
DigitsValue(t, p, q) ==
    IF p >= q THEN 0 ELSE DigitsValue(t, p, q - 1) * 10 + DigitVal(t[q - 1])

\* A number: -? (0 | [1-9][0-9]*) (. [0-9]+)? ([eE] [+-]? [0-9]+)?
ParseNumber(t, p) ==
    LET neg == At(t, p) = "-"
        p1 == IF neg THEN p + 1 ELSE p
        p2 == IF At(t, p1) = "0" THEN p1 + 1 ELSE DigitsEnd(t, p1)
        hasFrac == At(t, p2) = "."
        p3 == IF hasFrac THEN DigitsEnd(t, p2 + 1) ELSE p2
        fracOk == hasFrac => p3 > p2 + 1
        hasExp == At(t, p3) \in {"e", "E"}
        p4 == IF hasExp /\ At(t, p3 + 1) \in {"+", "-"} THEN p3 + 2 ELSE p3 + 1
        p5 == IF hasExp THEN DigitsEnd(t, p4) ELSE p3
        expOk == hasExp => p5 > p4
        n == DigitsValue(t, p1, p2)
    IN  IF p2 = p1 \/ ~fracOk \/ ~expOk THEN ParseFail
        ELSE IF hasFrac \/ hasExp THEN ParseOk(p5, VReal(SubSeq(t, p, p5 - 1)))
        ELSE ParseOk(p5, VNum(IF neg THEN 0 - n ELSE n))

ParseLiteral(t, p, word, v) ==
    IF p + Len(word) - 1 <= Len(t) /\ SubSeq(t, p, p + Len(word) - 1) = word
    THEN ParseOk(p + Len(word), v)
    ELSE ParseFail

\* An object keeps one member per key: a repeated key overwrites the value
\* and keeps the position of its first occurrence.
PutMember(pairs, k, v) ==
    IF \E n \in 1..Len(pairs) : pairs[n][1] = k
    THEN [n \in 1..Len(pairs) |-> IF pairs[n][1] = k THEN <<k, v>> ELSE pairs[n]]
    ELSE Append(pairs, <<k, v>>)

RECURSIVE ParseValue(_, _)
RECURSIVE ParseElements(_, _, _)
RECURSIVE ParseMembers(_, _, _)

\* The elements of an array, p at the first character of an element.
ParseElements(t, p, acc) ==
    LET r == ParseValue(t, p) IN
    IF ~r.ok THEN ParseFail
    ELSE LET q == SkipWs(t, r.pos)
             acc2 == Append(acc, r.val)
         IN  IF At(t, q) = "," THEN ParseElements(t, SkipWs(t, q + 1), acc2)
             ELSE IF At(t, q) = RBRACK THEN ParseOk(q + 1, VArr(acc2))
             ELSE ParseFail

\* The members of an object, p at the opening quote of a key.
ParseMembers(t, p, acc) ==
    IF At(t, p) # QUOTE THEN ParseFail
    ELSE LET k == StringBody(t, p + 1, << >>) IN
         IF ~k.ok THEN ParseFail
         ELSE LET q == SkipWs(t, k.pos) IN
              IF At(t, q) # ":" THEN ParseFail
              ELSE LET r == ParseValue(t, SkipWs(t, q + 1)) IN
                   IF ~r.ok THEN ParseFail
                   ELSE LET q2 == SkipWs(t, r.pos)
                            acc2 == PutMember(acc, k.val, r.val)
                        IN  IF At(t, q2) = ","
                            THEN ParseMembers(t, SkipWs(t, q2 + 1), acc2)
                            ELSE IF At(t, q2) = RBRACE
                            THEN ParseOk(q2 + 1, VObj(acc2))
                            ELSE ParseFail

\* A value starting at position p (whitespace already skipped).
ParseValue(t, p) ==
    LET c == At(t, p) IN
    IF c = LBRACE
    THEN LET q == SkipWs(t, p + 1) IN
         IF At(t, q) = RBRACE THEN ParseOk(q + 1, VObj(<< >>))
         ELSE ParseMembers(t, q, << >>)
    ELSE IF c = LBRACK
    THEN LET q == SkipWs(t, p + 1) IN
         IF At(t, q) = RBRACK THEN ParseOk(q + 1, VArr(<< >>))
         ELSE ParseElements(t, q, << >>)
    ELSE IF c = QUOTE
    THEN LET r == StringBody(t, p + 1, << >>) IN
         IF r.ok THEN ParseOk(r.pos, VStr(r.val)) ELSE ParseFail
    ELSE IF c = "-" \/ c \in Digits THEN ParseNumber(t, p)
    ELSE IF c = "n" THEN ParseLiteral(t, p, <<"n", "u", "l", "l">>, VNull)
    ELSE IF c = "t" THEN ParseLiteral(t, p, <<"t", "r", "u", "e">>, VBool(TRUE))
    ELSE IF c = "f"
    THEN ParseLiteral(t, p, <<"f", "a", "l", "s", "e">>, VBool(FALSE))
    ELSE ParseFail

\* JSON.parse(t): ok is FALSE where JSON.parse throws a SyntaxError.
JSONparse(t) ==
    LET r == ParseValue(t, SkipWs(t, 1)) IN
    IF r.ok /\ SkipWs(t, r.pos) = Len(t) + 1
    THEN [ok |-> TRUE, val |-> r.val]
    ELSE [ok |-> FALSE, val |-> VNull]

-----------------------------------------------------------------------------
(* fixTruncatedJson, lines 14-50 *)

\* A faulty CloserOf: every opener is closed by a brace.
CloserOfAlwaysBrace(char) == RBRACE

\* line 28: char === '{' ? '}' : ']'
CloserOf(char) == IF char = LBRACE THEN RBRACE ELSE RBRACK

IsOpener(char) == char = LBRACE \/ char = LBRACK
IsCloser(char) == char = RBRACE \/ char = RBRACK

\* stack.push(x) / stack.pop()
Push(s, x) == Append(s, x)
Pop(s) == SubSeq(s, 1, Len(s) - 1)
Top(s) == s[Len(s)]

\* A faulty ToggleString: every quote toggles, escaped or not.
ToggleStringIgnoringEscape(inside, esc, char) ==
    IF char = QUOTE THEN ~inside ELSE inside

\* lines 21-23: the string flag after reading char
ToggleString(inside, esc, char) ==
    IF char = QUOTE /\ ~esc THEN ~inside ELSE inside

\* A faulty NextEscaped: a backslash escapes even when it is itself escaped.
NextEscapedEveryBackslash(esc, char) == char = BSLASH

\* line 24: escaped = char === '\\' && !escaped
NextEscaped(esc, char) == char = BSLASH /\ ~esc

\* A faulty NextStack: a closer outside a string pops whatever is on top.
NextStackPopAnyCloser(s, inside, char) ==
    IF inside THEN s
    ELSE IF IsOpener(char) THEN Push(s, CloserOf(char))
    ELSE IF IsCloser(char) /\ Len(s) > 0 THEN Pop(s)
    ELSE s

\* lines 26-34: the stack after reading char, inside being the flag already
\* updated by lines 21-23
NextStack(s, inside, char) ==
    IF inside THEN s
    ELSE IF IsOpener(char) THEN Push(s, CloserOf(char))
    ELSE IF IsCloser(char) /\ Len(s) > 0 /\ Top(s) = char THEN Pop(s)
    ELSE s

\* One iteration of the loop of lines 19-35 on the scan state st.
ScanStep(st, char) ==
    LET inside == ToggleString(st.isInsideString, st.escaped, char)
    IN  [isInsideString |-> inside,
         escaped        |-> NextEscaped(st.escaped, char),
         stack          |-> NextStack(st.stack, inside, char)]

\* lines 15-17
ScanInit == [isInsideString |-> FALSE, escaped |-> FALSE, stack |-> << >>]

\* The loop of lines 19-35 over the characters a..b of text, from the scan
\* state st.  The range is halved, and the state after the first half is
\* evaluated before the second half is entered, to keep the evaluation
\* shallow.
RECURSIVE ScanRange(_, _, _, _)
ScanRange(st, text, a, b) ==
    IF a > b THEN st
    ELSE IF a = b THEN ScanStep(st, text[a])
    ELSE LET m == (a + b) \div 2
             left == ScanRange(st, text, a, m)
         IN  IF left.escaped \in BOOLEAN
             THEN ScanRange(left, text, m + 1, b)
             ELSE left

\* The scan state after the first n characters of text.
ScanTo(text, n) == ScanRange(ScanInit, text, 1, n)

\* A faulty CloseString: the quote is appended whether or not the scan ended
\* inside a string.
CloseStringAlways(text, inside) == Append(text, QUOTE)

\* lines 37-41
CloseString(text, inside) == IF inside THEN Append(text, QUOTE) ELSE text

\* lines 44-47: the closers in the order the loop appends them
RECURSIVE PopAll(_)
PopAll(s) == IF Len(s) = 0 THEN << >> ELSE <<Top(s)>> \o PopAll(Pop(s))

\* fixTruncatedJson as a function of its argument
fixTruncatedJson(text) ==
    LET st == ScanTo(text, Len(text))
    IN  CloseString(text, st.isInsideString) \o PopAll(st.stack)

-----------------------------------------------------------------------------
(* fixTruncatedJson step by step *)

\* A document with nested containers, keys, numbers, whitespace, escaped
\* quotes and backslashes, and brackets inside string literals:
\*   {"a":[1, "\"]"],"b\\":{}}
SampleDoc ==
    <<"{", "\"", "a", "\"", ":", "[", "1", ",", " ", "\"", "\\", "\"", "]",
      "\"", "]", ",", "\"", "b", "\\", "\\", "\"", ":", "{", "}", "}">>

\* Every contiguous piece of text: its truncations and its sub-documents.
Pieces(text) ==
    {SubSeq(text, a, b) : a \in 1..Len(text), b \in 0..Len(text)}

RepairInputs == TextsUpTo(ScanAlphabet, MaxLen) \cup Pieces(SampleDoc)

InitRepair ==
    /\ json \in RepairInputs
    /\ pc = "scan"
    /\ i = 0
    /\ stack = << >>
    /\ isInsideString = FALSE
    /\ escaped = FALSE
    /\ repaired = << >>
    /\ str = << >>
    /\ cleaned = << >>
    /\ apiKey = TRUE
    /\ upstream = "none"
    /\ responseText = << >>
    /\ rawText = << >>
    /\ cleanedText = << >>
    /\ data = NoData
    /\ result = NoResult
    /\ AppInitialState

\* lines 19-35, one iteration
ScanChar ==
    /\ pc = "scan"
    /\ i < Len(json)
    /\ LET st == ScanStep([isInsideString |-> isInsideString,
                           escaped |-> escaped, stack |-> stack], json[i + 1])
       IN  /\ isInsideString' = st.isInsideString
           /\ escaped' = st.escaped
           /\ stack' = st.stack
    /\ i' = i + 1
    /\ UNCHANGED <<appVars, pc, json, repaired, cleanVars, genVars>>

\* loop exit and lines 37-41
EndScan ==
    /\ pc = "scan"
    /\ i >= Len(json)
    /\ repaired' = CloseString(json, isInsideString)
    /\ pc' = "close"
    /\ UNCHANGED <<appVars, json, i, stack, isInsideString, escaped, cleanVars, genVars>>

\* lines 44-47, one iteration
PopCloser ==
    /\ pc = "close"
    /\ Len(stack) > 0
    /\ repaired' = Append(repaired, Top(stack))
    /\ stack' = Pop(stack)
    /\ UNCHANGED <<appVars, pc, json, i, isInsideString, escaped, cleanVars, genVars>>

\* line 49
ReturnRepaired ==
    /\ pc = "close"
    /\ Len(stack) = 0
    /\ pc' = "done"
    /\ UNCHANGED <<appVars, repairVars, cleanVars, genVars>>

NextRepair == ScanChar \/ EndScan \/ PopCloser \/ ReturnRepaired

SpecRepair == InitRepair /\ [][NextRepair]_vars

\* fixTruncatedJson is synchronous code: once called, each of its loops runs
\* on until its condition fails and line 49 returns.
SpecRepairFair == SpecRepair /\ WF_vars(NextRepair)

-----------------------------------------------------------------------------
(* cleanJsonString, lines 52-67 *)

\* The backtick character (named, as a TLA+ string cannot hold one).
BACKTICK == "BT"
COMMA == ","

\* The white space of String.prototype.trim and of \s that the model's
\* texts can hold.
JsWhitespace == {" ", "\n", "\t", "\r", "\f"}

RECURSIVE TrimStart(_)
TrimStart(t) ==
    IF Len(t) > 0 /\ t[1] \in JsWhitespace THEN TrimStart(Tail(t)) ELSE t

RECURSIVE TrimEnd(_)
TrimEnd(t) ==
    IF Len(t) > 0 /\ t[Len(t)] \in JsWhitespace
    THEN TrimEnd(SubSeq(t, 1, Len(t) - 1))
    ELSE t

\* line 53: str.trim()
Trim(t) == TrimEnd(TrimStart(t))

StartsWith(t, prefix) ==
    Len(t) >= Len(prefix) /\ SubSeq(t, 1, Len(prefix)) = prefix

FenceMark == <<BACKTICK, BACKTICK, BACKTICK>>
JsonTag == <<"j", "s", "o", "n">>

\* line 55: the first replace, of an opening fence with an optional json tag
\* and an optional newline, on a text that starts with a fence
StripOpeningFence(t) ==
    LET p1 == IF Len(t) >= 7 /\ SubSeq(t, 4, 7) = JsonTag THEN 8 ELSE 4
        p2 == IF At(t, p1) = "\n" THEN p1 + 1 ELSE p1
    IN  SubSeq(t, p2, Len(t))

\* line 55: the second replace, of a closing fence at the end of the text
\* with an optional newline before it
StripClosingFence(t) ==
    IF Len(t) >= 3 /\ SubSeq(t, Len(t) - 2, Len(t)) = FenceMark
    THEN IF At(t, Len(t) - 3) = "\n"
         THEN SubSeq(t, 1, Len(t) - 4)
         ELSE SubSeq(t, 1, Len(t) - 3)
    ELSE t

\* lines 54-56
StripFences(t) ==
    IF StartsWith(t, FenceMark)
    THEN StripClosingFence(StripOpeningFence(t))
    ELSE t

RECURSIVE SkipJsWhitespace(_, _)
SkipJsWhitespace(t, p) ==
    IF At(t, p) \in JsWhitespace THEN SkipJsWhitespace(t, p + 1) ELSE p

\* line 58: replace(/,\s*([\]}])/g, '$1').  The pattern is tried at position
\* m.p of t: a match (a comma, white space, a closer) is replaced by its
\* closer and the search goes on after it; otherwise the character is kept.
\* The pattern knows nothing of string literals.
CommaStep(t, m) ==
    IF m.p > Len(t) THEN m
    ELSE LET q == SkipJsWhitespace(t, m.p + 1) IN
         IF t[m.p] = COMMA /\ At(t, q) \in {RBRACK, RBRACE}
         THEN [out |-> Append(m.out, t[q]), p |-> q + 1]
         ELSE [out |-> Append(m.out, t[m.p]), p |-> m.p + 1]

\* k steps of the search, halved like ScanRange.
RECURSIVE CommaSteps(_, _, _)
CommaSteps(t, m, k) ==
    IF k = 0 THEN m
    ELSE IF k = 1 THEN CommaStep(t, m)
    ELSE LET first == CommaSteps(t, m, k \div 2)
         IN  IF first.p > 0
             THEN CommaSteps(t, first, k - (k \div 2))
             ELSE first

RemoveTrailingCommas(t) ==
    CommaSteps(t, [out |-> << >>, p |-> 1], Len(t)).out

\* lines 61-66: the text if it parses, the repaired text otherwise
ParseOrRepair(t) == IF JSONparse(t).ok THEN t ELSE fixTruncatedJson(t)

\* cleanJsonString as a function of its argument
cleanJsonString(t) ==
    ParseOrRepair(RemoveTrailingCommas(StripFences(Trim(t))))

-----------------------------------------------------------------------------
(* cleanJsonString step by step *)

\* The characters the normalization tells apart, and a digit.
CleanAlphabet == {QUOTE, COMMA, LBRACK, RBRACK, RBRACE, " ", "1"}

\* Longest text drawn exhaustively over CleanAlphabet.
MaxCleanLen == 4

\* Fenced, padded and comma-terminated forms of a small document.
FencedDoc ==
    <<" ", BACKTICK, BACKTICK, BACKTICK, "j", "s", "o", "n", "\n", "[", "1",
      ",", "\n", "]", "\n", BACKTICK, BACKTICK, BACKTICK, "\n">>

CleanInputs ==
    TextsUpTo(CleanAlphabet, MaxCleanLen) \cup Pieces(FencedDoc)

InitClean ==
    /\ str \in CleanInputs
    /\ pc = "trim"
    /\ cleaned = << >>
    /\ json = << >>
    /\ i = 0
    /\ stack = << >>
    /\ isInsideString = FALSE
    /\ escaped = FALSE
    /\ repaired = << >>
    /\ apiKey = TRUE
    /\ upstream = "none"
    /\ responseText = << >>
    /\ rawText = << >>
    /\ cleanedText = << >>
    /\ data = NoData
    /\ result = NoResult
    /\ AppInitialState

\* line 53
CleanTrim ==
    /\ pc = "trim"
    /\ cleaned' = Trim(str)
    /\ pc' = "fence"
    /\ UNCHANGED <<appVars, str, repairVars, genVars>>

\* lines 54-56
CleanFence ==
    /\ pc = "fence"
    /\ cleaned' = StripFences(cleaned)
    /\ pc' = "commas"
    /\ UNCHANGED <<appVars, str, repairVars, genVars>>

\* line 58
CleanCommas ==
    /\ pc = "commas"
    /\ cleaned' = RemoveTrailingCommas(cleaned)
    /\ pc' = "parse"
    /\ UNCHANGED <<appVars, str, repairVars, genVars>>

\* lines 61-66; the call of fixTruncatedJson is recorded in json and repaired
CleanParse ==
    /\ pc = "parse"
    /\ cleaned' = ParseOrRepair(cleaned)
    /\ IF JSONparse(cleaned).ok
       THEN UNCHANGED <<json, repaired>>
       ELSE json' = cleaned /\ repaired' = fixTruncatedJson(cleaned)
    /\ pc' = "cleaned"
    /\ UNCHANGED <<appVars, str, i, stack, isInsideString, escaped, genVars>>

NextClean == CleanTrim \/ CleanFence \/ CleanCommas \/ CleanParse

SpecClean == InitClean /\ [][NextClean]_vars

-----------------------------------------------------------------------------
(* generateLotteryData, lines 69-150.  The sources it passes through from   *)
(* the response's grounding metadata (lines 112-120) are left out.          *)

\* A faulty DefaultRawText: no fallback for an empty response text.
DefaultRawTextNone == << >>

\* line 122: the text used when response.text is empty or undefined
DefaultRawText ==
    <<"{", QUOTE, "d", "r", "a", "w", "s", QUOTE, ":", " ", "[", "]", "}">>

KeyDraws == <<"d", "r", "a", "w", "s">>
KeyGame == <<"g", "a", "m", "e">>
KeyDate == <<"d", "a", "t", "e">>
KeyNumbers == <<"n", "u", "m", "b", "e", "r", "s">>

\* lines 71, 139, 147: the errorDetail strings, and its absence
ErrApiKey == "API Key is missing."
ErrInterrupted == "Data stream was interrupted. Try a smaller date range."
ErrTooMany == "Too many requests. Slow down."
ErrConnection == "Connection failed."
NoErrorDetail == "absent"

\* v.key for a value that is neither null nor undefined: the member of an
\* object, undefined for a missing member and for every other kind of value
\* (none of the keys read here is a property of an array or a primitive).
GetProp(v, key) ==
    IF TagOf(v) = "obj" /\ \E n \in 1..Len(v[2]) : v[2][n][1] = key
    THEN v[2][CHOOSE n \in 1..Len(v[2]) : v[2][n][1] = key][2]
    ELSE VUndefined

\* ToBoolean
Truthy(v) ==
    CASE TagOf(v) = "undefined" -> FALSE
      [] TagOf(v) = "null" -> FALSE
      [] TagOf(v) = "bool" -> v[2]
      [] TagOf(v) = "num" -> v[2] # 0
      [] TagOf(v) = "real" ->
            \E n \in 1..Len(v[2]) : v[2][n] \in (Digits \ {"0"})
      [] TagOf(v) = "str" -> Len(v[2]) > 0
      [] TagOf(v) = "arr" -> TRUE
      [] TagOf(v) = "obj" -> TRUE

\* Array.isArray
IsArray(v) == TagOf(v) = "arr"

\* Reading a property of null or undefined throws a TypeError.
PropThrows(v) == TagOf(v) \in {"null", "undefined"}

\* A faulty ValidDraw: the numbers field is not checked.
ValidDrawNoNumbersCheck(d) ==
    /\ Truthy(d)
    /\ Truthy(GetProp(d, KeyGame))
    /\ Truthy(GetProp(d, KeyDate))

\* line 129: d && d.game && d.date && Array.isArray(d.numbers)
ValidDraw(d) ==
    /\ Truthy(d)
    /\ Truthy(GetProp(d, KeyGame))
    /\ Truthy(GetProp(d, KeyDate))
    /\ IsArray(GetProp(d, KeyNumbers))

\* line 129: Array.prototype.filter
RECURSIVE Filter(_, _)
Filter(arr, n) ==
    IF n = 0 THEN << >>
    ELSE IF ValidDraw(arr[n]) THEN Append(Filter(arr, n - 1), arr[n])
    ELSE Filter(arr, n - 1)

\* line 130: new Date(d.date).getTime() for a date-only ISO string
\* YYYY-MM-DD of the calendar, as [nan, t]; any other text of the model (it
\* holds no other date format) is an Invalid Date, whose time is NaN.  t is
\* the time up to an order-preserving map (the comparator uses differences
\* of times, and the sort only their signs).
DaysInMonth(y, m) ==
    IF m = 2
    THEN IF (y % 4 = 0 /\ y % 100 # 0) \/ y % 400 = 0 THEN 29 ELSE 28
    ELSE IF m \in {4, 6, 9, 11} THEN 30 ELSE 31

NaNTime == [nan |-> TRUE, t |-> 0]

DateTime(v) ==
    IF TagOf(v) # "str" THEN NaNTime
    ELSE LET c == v[2] IN
         IF /\ Len(c) = 10
            /\ \A n \in {1, 2, 3, 4, 6, 7, 9, 10} : c[n] \in Digits
            /\ c[5] = "-" /\ c[8] = "-"
         THEN LET y == DigitsValue(c, 1, 5)
                  m == DigitsValue(c, 6, 8)
                  d == DigitsValue(c, 9, 11)
              IN  IF m \in 1..12 /\ d \in 1..DaysInMonth(y, m)
                  THEN [nan |-> FALSE, t |-> (y * 100 + m) * 100 + d]
                  ELSE NaNTime
         ELSE NaNTime

\* line 130: the comparator (a, b) => time(b) - time(a), as the number the
\* sort uses: a NaN result counts as +0 (ECMAScript SortCompare).
SortCompare(a, b) ==
    LET ta == DateTime(GetProp(a, KeyDate))
        tb == DateTime(GetProp(b, KeyDate))
    IN  IF ta.nan \/ tb.nan THEN 0 ELSE tb.t - ta.t

\* ECMAScript: the comparator is a consistent comparison function for the
\* elements of arr.
ConsistentComparator(arr) ==
    LET N == 1..Len(arr)
        c(a, b) == SortCompare(arr[a], arr[b])
    IN  /\ \A a \in N : c(a, a) = 0
        /\ \A a, b \in N : (c(a, b) = 0 => c(b, a) = 0)
                           /\ (c(a, b) < 0 => c(b, a) > 0)
        /\ \A a, b, k \in N :
               /\ (c(a, b) = 0 /\ c(b, k) = 0) => c(a, k) = 0
               /\ (c(a, b) < 0 /\ c(b, k) < 0) => c(a, k) < 0
               /\ (c(a, b) > 0 /\ c(b, k) > 0) => c(a, k) > 0

PermutationsOf(n) ==
    {f \in [1..n -> 1..n] : \A a, b \in 1..n : f[a] = f[b] => a = b}

\* line 130: Array.prototype.sort.  With a consistent comparator the result
\* is the stable sort.  Otherwise (here: an unparsable date among different
\* parsable ones, NaN reading as "equal") ECMAScript leaves the sort order
\* implementation-defined: the result is some permutation of the elements,
\* and which one depends on the engine's algorithm.
SortOutcomes(arr) ==
    LET n == Len(arr)
        sorted(f) ==
            \A a, b \in 1..n :
                a < b => /\ SortCompare(arr[f[a]], arr[f[b]]) <= 0
                         /\ (SortCompare(arr[f[a]], arr[f[b]]) = 0 => f[a] < f[b])
    IN  {[k \in 1..n |-> arr[f[k]]] :
            f \in {g \in PermutationsOf(n) :
                      ConsistentComparator(arr) => sorted(g)}}

\* lines 70-72
MissingKeyResult == [draws |-> << >>, errorDetail |-> ErrApiKey]

\* lines 142-149
RejectedResult(is429) ==
    [draws |-> << >>,
     errorDetail |-> IF is429 THEN ErrTooMany ELSE ErrConnection]

\* lines 134-140
InterruptedResult == [draws |-> << >>, errorDetail |-> ErrInterrupted]

\* line 122: response.text || DefaultRawText
RawTextOf(text) == IF Len(text) = 0 THEN DefaultRawText ELSE text

\* lines 126-133 throw: JSON.parse throws, or data.draws is read of null
ValidateThrows(parsed) == ~parsed.ok \/ PropThrows(parsed.val)

\* line 127: data.draws && Array.isArray(data.draws)
HasDrawsArray(v) ==
    Truthy(GetProp(v, KeyDraws)) /\ IsArray(GetProp(v, KeyDraws))

\* lines 127-133: the results the function can return for the parsed value
ValidateResults(v) ==
    IF HasDrawsArray(v)
    THEN LET validDraws == Filter(GetProp(v, KeyDraws)[2],
                                  Len(GetProp(v, KeyDraws)[2]))
         IN  {[draws |-> out, errorDetail |-> NoErrorDetail] :
                 out \in SortOutcomes(validDraws)}
    ELSE {[draws |-> << >>, errorDetail |-> NoErrorDetail]}

-----------------------------------------------------------------------------
(* The response texts of the model *)

DigitChar(n) ==
    CASE n = 0 -> "0" [] n = 1 -> "1" [] n = 2 -> "2" [] n = 3 -> "3"
      [] n = 4 -> "4" [] n = 5 -> "5" [] n = 6 -> "6" [] n = 7 -> "7"
      [] n = 8 -> "8" [] n = 9 -> "9"

\* {"id":"
TextIdOpen ==
    <<"{", QUOTE, "i", "d", QUOTE, ":", QUOTE>>

\* ","game":"Lotto
TextGameLotto ==
    <<QUOTE, ",", QUOTE, "g", "a", "m", "e", QUOTE, ":", QUOTE, "L", "o", "t",
    "t", "o">>

\* ","game":"
TextGameBlank ==
    <<QUOTE, ",", QUOTE, "g", "a", "m", "e", QUOTE, ":", QUOTE>>

\* ","date":"2026-01-01","numbers":[
TextDateJan ==
    <<QUOTE, ",", QUOTE, "d", "a", "t", "e", QUOTE, ":", QUOTE, "2", "0", "2",
    "6", "-", "0", "1", "-", "0", "1", QUOTE, ",", QUOTE, "n", "u", "m", "b",
    "e", "r", "s", QUOTE, ":", "[">>

\* ","date":"2026-01-20","numbers":[
TextDateJanLate ==
    <<QUOTE, ",", QUOTE, "d", "a", "t", "e", QUOTE, ":", QUOTE, "2", "0", "2",
    "6", "-", "0", "1", "-", "2", "0", QUOTE, ",", QUOTE, "n", "u", "m", "b",
    "e", "r", "s", QUOTE, ":", "[">>

\* ","date":"2026-02-15","numbers":[
TextDateFeb ==
    <<QUOTE, ",", QUOTE, "d", "a", "t", "e", QUOTE, ":", QUOTE, "2", "0", "2",
    "6", "-", "0", "2", "-", "1", "5", QUOTE, ",", QUOTE, "n", "u", "m", "b",
    "e", "r", "s", QUOTE, ":", "[">>

\* ","date":"soon","numbers":[
TextDateSoon ==
    <<QUOTE, ",", QUOTE, "d", "a", "t", "e", QUOTE, ":", QUOTE, "s", "o", "o",
    "n", QUOTE, ",", QUOTE, "n", "u", "m", "b", "e", "r", "s", QUOTE, ":",
    "[">>

\* ","numbers":[
TextNoDate ==
    <<QUOTE, ",", QUOTE, "n", "u", "m", "b", "e", "r", "s", QUOTE, ":", "[">>

\* ","date":"2026-01-01","numbers":7}
TextNumbersSeven ==
    <<QUOTE, ",", QUOTE, "d", "a", "t", "e", QUOTE, ":", QUOTE, "2", "0", "2",
    "6", "-", "0", "1", "-", "0", "1", QUOTE, ",", QUOTE, "n", "u", "m", "b",
    "e", "r", "s", QUOTE, ":", "7", "}">>

\* null
TextNull ==
    <<"n", "u", "l", "l">>

\* {"draws":[
TextDocOpen ==
    <<"{", QUOTE, "d", "r", "a", "w", "s", QUOTE, ":", "[">>

\* ]}
TextDocClose ==
    <<"]", "}">>

\* The kinds of array element: four valid records (one with an empty
\* numbers array, one with an unparsable date) and five invalid elements.
ElementKinds ==
    {"jan", "feb", "soon", "empty", "null", "nogame", "blank", "nonum",
     "nodate"}

\* The text of the element of a kind at position k of the array; a record
\* carries its position as its id and as its number.
ElementText(kind, k) ==
    LET id == <<DigitChar(k)>>
        close == <<RBRACK, RBRACE>>
    IN  CASE kind = "jan" ->
                TextIdOpen \o id \o TextGameLotto \o TextDateJan \o id \o close
          [] kind = "feb" ->
                TextIdOpen \o id \o TextGameLotto \o TextDateFeb \o id \o close
          [] kind = "soon" ->
                TextIdOpen \o id \o TextGameLotto \o TextDateSoon \o id \o close
          [] kind = "empty" ->
                TextIdOpen \o id \o TextGameLotto \o TextDateJanLate \o close
          [] kind = "null" -> TextNull
          [] kind = "nogame" ->
                TextIdOpen \o id \o TextDateJan \o id \o close
          [] kind = "blank" ->
                TextIdOpen \o id \o TextGameBlank \o TextDateJan \o id \o close
          [] kind = "nonum" ->
                TextIdOpen \o id \o TextGameLotto \o TextNumbersSeven
          [] kind = "nodate" ->
                TextIdOpen \o id \o TextGameLotto \o TextNoDate \o id \o close

RECURSIVE JoinElements(_, _)
JoinElements(kinds, n) ==
    IF n = 0 THEN << >>
    ELSE IF n = 1 THEN ElementText(kinds[1], 1)
    ELSE JoinElements(kinds, n - 1) \o <<COMMA>> \o ElementText(kinds[n], n)

\* The document {"draws":[...]} with one element per kind.
DrawsDoc(kinds) == TextDocOpen \o JoinElements(kinds, Len(kinds)) \o TextDocClose

\* Most elements in a draws array.
MaxDraws == 3

DrawsDocs == {DrawsDoc(kinds) : kinds \in TextsUpTo(ElementKinds, MaxDraws)}

\* null
TopNull ==
    <<"n", "u", "l", "l">>

\* 0
TopZero ==
    <<"0">>

\* 1
TopOne ==
    <<"1">>

\* true
TopTrue ==
    <<"t", "r", "u", "e">>

\* false
TopFalse ==
    <<"f", "a", "l", "s", "e">>

\* "x"
TopString ==
    <<QUOTE, "x", QUOTE>>

\* [1]
TopArray ==
    <<"[", "1", "]">>

\* {}
TopEmptyObject ==
    <<"{", "}">>

\* {"draws":null}
TopDrawsNull ==
    <<"{", QUOTE, "d", "r", "a", "w", "s", QUOTE, ":", "n", "u", "l", "l",
    "}">>

\* {"draws":7}
TopDrawsNumber ==
    <<"{", QUOTE, "d", "r", "a", "w", "s", QUOTE, ":", "7", "}">>

\* {"draws":"x"}
TopDrawsString ==
    <<"{", QUOTE, "d", "r", "a", "w", "s", QUOTE, ":", QUOTE, "x", QUOTE,
    "}">>

\* {"draws":{}}
TopDrawsObject ==
    <<"{", QUOTE, "d", "r", "a", "w", "s", QUOTE, ":", "{", "}", "}">>

\* {"date":[]}
TopOtherKey ==
    <<"{", QUOTE, "d", "a", "t", "e", QUOTE, ":", "[", "]", "}">>

\* Sorry
TopProse ==
    <<"S", "o", "r", "r", "y">>

\* Texts that are not a draws document.
TopLevelTexts ==
    {TopNull, TopZero, TopOne, TopTrue,
     TopFalse, TopString, TopArray, TopEmptyObject,
     TopDrawsNull, TopDrawsNumber, TopDrawsString, TopDrawsObject,
     TopOtherKey, TopProse}

\* A fenced document with trailing commas.
FencedDrawsDoc ==
    <<BACKTICK, BACKTICK, BACKTICK, "j", "s", "o", "n", "\n", "{", QUOTE, "d",
    "r", "a", "w", "s", QUOTE, ":", "[", "{", QUOTE, "i", "d", QUOTE, ":",
    QUOTE, "1", QUOTE, ",", QUOTE, "g", "a", "m", "e", QUOTE, ":", QUOTE, "L",
    "o", "t", "t", "o", QUOTE, ",", QUOTE, "d", "a", "t", "e", QUOTE, ":",
    QUOTE, "2", "0", "2", "6", "-", "0", "2", "-", "1", "5", QUOTE, ",",
    QUOTE, "n", "u", "m", "b", "e", "r", "s", QUOTE, ":", "[", "1", ",", "]",
    ",", "}", ",", "]", ",", "}", "\n", BACKTICK, BACKTICK, BACKTICK, "\n">>

\* A document cut anywhere: its prefixes.
Prefixes(text) == {SubSeq(text, 1, n) : n \in 0..Len(text)}

TruncatedDoc == DrawsDoc(<<"feb", "jan">>)

\* response.text: empty, a top-level value, a draws document, a truncated
\* document, a fenced one.
ResponseTexts ==
    {<< >>, FencedDrawsDoc} \cup TopLevelTexts \cup DrawsDocs
        \cup Prefixes(TruncatedDoc)

-----------------------------------------------------------------------------
(* generateLotteryData step by step *)

InitGen ==
    /\ apiKey \in BOOLEAN
    /\ pc = "call"
    /\ upstream = "none"
    /\ responseText = << >>
    /\ rawText = << >>
    /\ cleanedText = << >>
    /\ data = NoData
    /\ result = NoResult
    /\ AppInitialState
    /\ str = << >>
    /\ cleaned = << >>
    /\ json = << >>
    /\ i = 0
    /\ stack = << >>
    /\ isInsideString = FALSE
    /\ escaped = FALSE
    /\ repaired = << >>

\* lines 70-72: no API key
GenMissingKey ==
    /\ pc = "call"
    /\ ~apiKey
    /\ result' = MissingKeyResult
    /\ pc' = "returned"
    /\ UNCHANGED <<appVars, apiKey, upstream, responseText, rawText, cleanedText, data,
                   repairVars, cleanVars>>

\* lines 75-110: the request is sent
GenRequest ==
    /\ pc = "call"
    /\ apiKey
    /\ pc' = "awaiting"
    /\ UNCHANGED <<appVars, genVars, repairVars, cleanVars>>

\* lines 142-149: the request fails
GenReject ==
    /\ pc = "awaiting"
    /\ \E is429 \in BOOLEAN : result' = RejectedResult(is429)
    /\ upstream' = "rejected"
    /\ pc' = "returned"
    /\ UNCHANGED <<appVars, apiKey, responseText, rawText, cleanedText, data,
                   repairVars, cleanVars>>

\* lines 110-123: the response arrives and its text is cleaned
GenResolve ==
    /\ pc = "awaiting"
    /\ \E text \in ResponseTexts :
           /\ responseText' = text
           /\ rawText' = RawTextOf(text)
           /\ cleanedText' = cleanJsonString(RawTextOf(text))
    /\ upstream' = "resolved"
    /\ pc' = "parse"
    /\ UNCHANGED <<appVars, apiKey, data, result, repairVars, cleanVars>>

\* line 126
GenParse ==
    /\ pc = "parse"
    /\ data' = JSONparse(cleanedText)
    /\ pc' = "parsed"
    /\ UNCHANGED <<appVars, apiKey, upstream, responseText, rawText, cleanedText,
                   result, repairVars, cleanVars>>

\* lines 127-133
GenValidate ==
    /\ pc = "parsed"
    /\ ~ValidateThrows(data)
    /\ result' \in ValidateResults(data.val)
    /\ pc' = "returned"
    /\ UNCHANGED <<appVars, apiKey, upstream, responseText, rawText, cleanedText, data,
                   repairVars, cleanVars>>

\* lines 134-140
GenCatch ==
    /\ pc = "parsed"
    /\ ValidateThrows(data)
    /\ result' = InterruptedResult
    /\ pc' = "returned"
    /\ UNCHANGED <<appVars, apiKey, upstream, responseText, rawText, cleanedText, data,
                   repairVars, cleanVars>>

NextGen ==
    GenMissingKey \/ GenRequest \/ GenReject \/ GenResolve \/ GenParse
        \/ GenValidate \/ GenCatch

SpecGen == InitGen /\ [][NextGen]_vars

-----------------------------------------------------------------------------
(* App.tsx: fetchData (lines 32-61), the mount effect (lines 63-68) and the
   refresh button (lines 180-181) *)

\* App.tsx lines 7-16: the number of LOADING_MESSAGES
LoadingMessagesLength == 8

\* The most fetchData calls of one run.
MaxFetches == 3

\* What the awaited generateLotteryData call of line 42 can give: a result
\* with draws, a result with no draws, a result with an errorDetail, or an
\* exception.
FetchOutcomes == {"draws", "empty", "errorDetail", "thrown"}

\* App.tsx lines 33-42, up to the await.  The interval of line 37 gets a
\* fresh id, which overwrites loadingIntervalRef.current; setLoading(true)
\* changes the state, and the button sees it at the next committed render.
FetchStart(id) ==
    /\ loadingState' = TRUE
    /\ error' = "null"
    /\ loadingStep' = 0
    /\ timers' = timers \cup {id}
    /\ loadingIntervalRef' = id
    /\ inFlight' = inFlight \cup {id}
    /\ started' = id

\* App.tsx lines 57-59 and 66: clearInterval of the id the ref holds now.
ClearRefInterval ==
    IF loadingIntervalRef # 0 THEN timers \ {loadingIntervalRef} ELSE timers

\* App.tsx lines 44-53: the error state after the awaited call
ErrorAfter(outcome) ==
    CASE outcome = "errorDetail" -> "errorDetail"
      [] outcome = "empty" -> "noResults"
      [] outcome = "thrown" -> "unexpected"
      [] OTHER -> error

InitApp ==
    /\ pc = "app"
    /\ json = << >>
    /\ i = 0
    /\ stack = << >>
    /\ isInsideString = FALSE
    /\ escaped = FALSE
    /\ repaired = << >>
    /\ str = << >>
    /\ cleaned = << >>
    /\ apiKey = TRUE
    /\ upstream = "none"
    /\ responseText = << >>
    /\ rawText = << >>
    /\ cleanedText = << >>
    /\ data = NoData
    /\ result = NoResult
    /\ AppInitialState

\* App.tsx lines 63-64: the effect of the first render calls fetchData.  The
\* render that shows loading = true is committed later.
AppMount ==
    /\ pc = "app"
    /\ mounted = "initial"
    /\ mounted' = "mounted"
    /\ FetchStart(started + 1)
    /\ UNCHANGED <<renderedLoading, appDraws>>
    /\ UNCHANGED <<pc, repairVars, cleanVars, genVars>>

\* React commits a render with the current state: from then on the button of
\* lines 180-181 sees the new value of loading.
Render ==
    /\ pc = "app"
    /\ mounted = "mounted"
    /\ renderedLoading # loadingState
    /\ renderedLoading' = loadingState
    /\ UNCHANGED <<mounted, loadingState, error, appDraws, loadingStep,
                   loadingIntervalRef, timers, inFlight, started>>
    /\ UNCHANGED <<pc, repairVars, cleanVars, genVars>>

\* App.tsx lines 180-181: a click on the refresh button, which is enabled
\* while the committed render has loading = false, calls fetchData; the state
\* changes of a click handler are rendered before the next event.
ClickRefresh ==
    /\ pc = "app"
    /\ mounted = "mounted"
    /\ ~renderedLoading
    /\ started < MaxFetches
    /\ FetchStart(started + 1)
    /\ renderedLoading' = TRUE
    /\ UNCHANGED <<mounted, appDraws>>
    /\ UNCHANGED <<pc, repairVars, cleanVars, genVars>>

\* App.tsx lines 42-60: the awaited call of one fetchData settles; the rest
\* of its body and the finally block run.
FetchSettle ==
    /\ pc = "app"
    /\ \E id \in inFlight, outcome \in FetchOutcomes :
           /\ inFlight' = inFlight \ {id}
           /\ error' = ErrorAfter(outcome)
           /\ appDraws' = CASE outcome = "draws" -> "some"
                            [] outcome = "thrown" -> appDraws
                            [] OTHER -> "none"
    /\ loadingState' = FALSE
    /\ timers' = ClearRefInterval
    /\ UNCHANGED <<mounted, renderedLoading, loadingStep, loadingIntervalRef,
                   started>>
    /\ UNCHANGED <<pc, repairVars, cleanVars, genVars>>

\* App.tsx lines 37-39: an active interval fires.
IntervalTick ==
    /\ pc = "app"
    /\ mounted = "mounted"
    /\ timers # {}
    /\ loadingStep' = (loadingStep + 1) % LoadingMessagesLength
    /\ UNCHANGED <<mounted, loadingState, renderedLoading, error, appDraws,
                   loadingIntervalRef, timers, inFlight, started>>
    /\ UNCHANGED <<pc, repairVars, cleanVars, genVars>>

\* App.tsx lines 65-67: the cleanup of the effect, when App is unmounted.
AppUnmount ==
    /\ pc = "app"
    /\ mounted = "mounted"
    /\ mounted' = "unmounted"
    /\ timers' = ClearRefInterval
    /\ UNCHANGED <<loadingState, renderedLoading, error, appDraws, loadingStep,
                   loadingIntervalRef, inFlight, started>>
    /\ UNCHANGED <<pc, repairVars, cleanVars, genVars>>

NextApp ==
    \/ AppMount
    \/ Render
    \/ ClickRefresh
    \/ FetchSettle
    \/ IntervalTick
    \/ AppUnmount

SpecApp == InitApp /\ [][NextApp]_vars

-----------------------------------------------------------------------------
(* String literals and open containers, stated without the scan's flags *)

\* The number of consecutive backslashes immediately before position p.
BackslashRun(text, p) ==
    CHOOSE k \in 0..(p - 1) :
        /\ \A j \in (p - k)..(p - 1) : text[j] = BSLASH
        /\ (k < p - 1 => text[p - k - 1] # BSLASH)

\* A quote that is not preceded by an unescaped backslash.
UnescapedQuote(text, p) ==
    text[p] = QUOTE /\ BackslashRun(text, p) % 2 = 0

\* Position p lies inside a string literal (an opening quote counts as
\* inside, a closing quote as outside).
InString(text, p) ==
    Cardinality({q \in 1..p : UnescapedQuote(text, q)}) % 2 = 1

Matches(opener, closer) ==
    \/ opener = LBRACE /\ closer = RBRACE
    \/ opener = LBRACK /\ closer = RBRACK

\* The positions of the openers outside string literals among the first n
\* characters that no closer has matched, in order of appearance.
RECURSIVE OpenPositions(_, _)
OpenPositions(text, n) ==
    IF n = 0 THEN << >>
    ELSE LET open == OpenPositions(text, n - 1)
             c == text[n]
         IN  IF InString(text, n) THEN open
             ELSE IF c \in {LBRACE, LBRACK} THEN Append(open, n)
             ELSE IF /\ c \in {RBRACE, RBRACK}
                     /\ Len(open) > 0
                     /\ Matches(text[open[Len(open)]], c)
                  THEN SubSeq(open, 1, Len(open) - 1)
             ELSE open

UnmatchedOpeners(text) == OpenPositions(text, Len(text))

\* What fixTruncatedJson appended after its argument, and the closers in it.
AppendedSuffix == SubSeq(repaired, Len(json) + 1, Len(repaired))
AppendedClosers ==
    IF Len(AppendedSuffix) > 0 /\ AppendedSuffix[1] = QUOTE
    THEN Tail(AppendedSuffix)
    ELSE AppendedSuffix

-----------------------------------------------------------------------------
(* Claims about fixTruncatedJson *)

\* C1: when fixTruncatedJson finishes, it has appended one closer per opener
\* (outside string literals) left unmatched by the scan; read left to right
\* the closers match those openers from the last to appear to the first.
C1_ClosersMatchUnmatchedOpeners ==
    pc = "done" =>
        LET open == UnmatchedOpeners(json)
            n == Len(open)
        IN  /\ Len(AppendedClosers) = n
            /\ \A k \in 1..n :
                   Matches(json[open[n + 1 - k]], AppendedClosers[k])

\* C1 witness: two unmatched openers of different kinds and a matched pair.
C1_Witness ==
    /\ pc = "done"
    /\ Len(UnmatchedOpeners(json)) = 2
    /\ json[UnmatchedOpeners(json)[1]] # json[UnmatchedOpeners(json)[2]]
    /\ \E p \in 1..Len(json) : json[p] \in {RBRACE, RBRACK} /\ ~InString(json, p)
    /\ Len(AppendedClosers) = 2

\* C2: the output of fixTruncatedJson has an even number of unescaped quotes
\* and, scanned by the same rules, ends outside any string with an empty
\* stack of open containers.
C2_RepairedIsClosed ==
    pc = "done" =>
        /\ ~InString(repaired, Len(repaired))
        /\ ~ScanTo(repaired, Len(repaired)).isInsideString
        /\ ScanTo(repaired, Len(repaired)).stack = << >>

\* C3: for valid JSON text the scan ends outside any string with an empty
\* stack, nothing is appended, and the result parses to the same value.
C3_ValidJsonUnchanged ==
    (pc = "done" /\ JSONparse(json).ok) =>
        /\ repaired = json
        /\ JSONparse(repaired).ok
        /\ JSONparse(repaired).val = JSONparse(json).val

\* C3 witness: a valid document holding an escaped quote, a bracket inside a
\* string literal and nested containers.
C3_Witness ==
    /\ pc = "done"
    /\ json = SampleDoc
    /\ JSONparse(json).ok
    /\ repaired = json

\* C4: at every position of the scan, escaped is true exactly when the
\* preceding character is a backslash that is not itself escaped (it ends an
\* odd run of backslashes), and the string flag has been toggled by exactly
\* the quotes not preceded by an unescaped backslash.
C4_EscapeTracking ==
    pc = "scan" =>
        /\ escaped = (BackslashRun(json, i + 1) % 2 = 1)
        /\ isInsideString = InString(json, i)

\* C4 witness: the literal "\\" (an escaped backslash, then the closing
\* quote) has been scanned and recognised as closed.
C4_Witness ==
    /\ pc = "scan"
    /\ json = <<QUOTE, BSLASH, BSLASH, QUOTE>>
    /\ i = 4
    /\ ~isInsideString

\* The quote fixTruncatedJson owes to the scan's final string flag, and what
\* follows it in the result.
OwedQuote == IF isInsideString THEN <<QUOTE>> ELSE << >>
AfterOwedQuote ==
    SubSeq(repaired, Len(json) + Len(OwedQuote) + 1, Len(repaired))

\* C11: fixTruncatedJson returns on every input (the empty text included),
\* and from the end of the scan on the result is the argument, unchanged,
\* followed by one quote exactly when the scan ended inside a string, followed
\* by closers only; on return the closers are as many as the scan left on the
\* stack.
C11_InputThenQuoteThenClosers ==
    /\ <>(pc = "done")
    /\ [](pc \in {"close", "done"} =>
            /\ Len(repaired) >= Len(json) + Len(OwedQuote)
            /\ SubSeq(repaired, 1, Len(json)) = json
            /\ SubSeq(repaired, Len(json) + 1, Len(json) + Len(OwedQuote))
                   = OwedQuote
            /\ \A k \in 1..Len(AfterOwedQuote) :
                   AfterOwedQuote[k] \in {RBRACE, RBRACK}
            /\ Len(AfterOwedQuote) + Len(stack)
                   = Len(ScanTo(json, Len(json)).stack))
    /\ [](pc = "done" => stack = << >>)

\* C11 witness: the text {["a ends inside a string under two open containers
\* and comes back as {["a"]}.
C11_Witness ==
    /\ pc = "done"
    /\ json = <<LBRACE, LBRACK, QUOTE, "a">>
    /\ isInsideString
    /\ repaired = json \o <<QUOTE, RBRACK, RBRACE>>

\* The closer that matches the opener at position p of text.
ClosingOf(text, p) == IF text[p] = LBRACE THEN RBRACE ELSE RBRACK

\* C12: at every position of the scan the stack holds, bottom to top, the
\* matching closers of the openers outside string literals read so far that
\* are still unclosed; and each scan step changes the stack by exactly this
\* rule: outside a string an opener pushes its closer and a closer pops when
\* the stack is non-empty with that closer on top; a mismatched closer, a
\* closer on an empty stack, any other character and any character inside a
\* string literal leave the stack as it is.
C12_StackTracksOpenContainers ==
    /\ [](pc = "scan" =>
            LET open == OpenPositions(json, i)
            IN  /\ Len(stack) = Len(open)
                /\ \A k \in 1..Len(open) : stack[k] = ClosingOf(json, open[k]))
    /\ [][(pc = "scan" /\ i' = i + 1) =>
            LET c == json[i + 1]
                n == Len(stack)
            IN  IF InString(json, i + 1) THEN stack' = stack
                ELSE IF c \in {LBRACE, LBRACK}
                     THEN stack' = stack \o <<ClosingOf(json, i + 1)>>
                ELSE IF c \in {RBRACE, RBRACK} /\ n > 0 /\ stack[n] = c
                     THEN stack' = SubSeq(stack, 1, n - 1)
                ELSE stack' = stack]_vars

\* C12 witness: all of {"a":[1, "\"]"],"b\\":{} has been scanned (both kinds
\* of opener pushed, both popped, a bracket inside a string literal passed
\* over) and only the outermost brace is still open.
C12_Witness ==
    /\ pc = "scan"
    /\ json = SubSeq(SampleDoc, 1, Len(SampleDoc) - 1)
    /\ i = Len(json)
    /\ stack = <<RBRACE>>

-----------------------------------------------------------------------------
(* Claims about cleanJsonString *)

\* C9: the trailing-comma step changes nothing inside a string literal, so
\* for valid JSON text the normalized text parses to the same value as the
\* original.
C9_ValidJsonKeepsValue ==
    (pc = "parse" /\ JSONparse(str).ok) =>
        /\ JSONparse(cleaned).ok
        /\ JSONparse(cleaned).val = JSONparse(str).val

-----------------------------------------------------------------------------
(* Claims about generateLotteryData *)

ErrorDetailSet == result.errorDetail # NoErrorDetail

\* A value the claims call truthy: not null, false, 0 or the empty string
\* (and not missing).
ClaimTruthy(v) ==
    /\ v # VUndefined
    /\ v # VNull
    /\ v # VBool(FALSE)
    /\ v # VNum(0)
    /\ v # VStr(<< >>)

\* The members of an object value with the given key.
MembersNamed(v, key) ==
    IF TagOf(v) = "obj"
    THEN {v[2][n][2] : n \in {m \in 1..Len(v[2]) : v[2][m][1] = key}}
    ELSE {}

\* The parsed value has a draws field that is a sequence.
DrawsIsSequence(v) == \E d \in MembersNamed(v, KeyDraws) : TagOf(d) = "arr"

\* The elements of the draws field of the parsed value.
ParsedDraws == (CHOOSE d \in MembersNamed(data.val, KeyDraws) : TRUE)[2]

\* The element is one the validator is to keep.
IsKept(v) ==
    /\ \E g \in MembersNamed(v, KeyGame) : ClaimTruthy(g)
    /\ \E d \in MembersNamed(v, KeyDate) : ClaimTruthy(d)
    /\ \E n \in MembersNamed(v, KeyNumbers) : TagOf(n) = "arr"

\* C5: errorDetail is set exactly when the cleaned text does not parse or
\* the upstream call failed (a missing API key counted as such a failure);
\* and when errorDetail is set, draws is empty.
C5_ErrorDetailExactly ==
    pc = "returned" =>
        /\ ErrorDetailSet <=>
               \/ ~apiKey
               \/ upstream = "rejected"
               \/ (upstream = "resolved" /\ ~data.ok)
        /\ ErrorDetailSet => result.draws = << >>

\* C6: when the parsed value has a draws sequence, the returned draws are
\* exactly its elements that are to be kept, each once and unmodified.
C6_KeptExactlyValid ==
    (pc = "returned" /\ upstream = "resolved" /\ data.ok
        /\ DrawsIsSequence(data.val)) =>
        /\ ~ErrorDetailSet
        /\ \E f \in [1..Len(result.draws) -> 1..Len(ParsedDraws)] :
               /\ \A a, b \in 1..Len(result.draws) : f[a] = f[b] => a = b
               /\ \A a \in 1..Len(result.draws) : result.draws[a] = ParsedDraws[f[a]]
               /\ {f[a] : a \in 1..Len(result.draws)}
                      = {n \in 1..Len(ParsedDraws) : IsKept(ParsedDraws[n])}

\* C6 witness: of three elements one is dropped and two are kept, one of
\* them with an empty numbers sequence.
C6_Witness ==
    /\ pc = "returned"
    /\ upstream = "resolved"
    /\ data.ok
    /\ DrawsIsSequence(data.val)
    /\ Len(ParsedDraws) = 3
    /\ Len(result.draws) = 2
    /\ \E a \in 1..2 : VArr(<< >>) \in MembersNamed(result.draws[a], KeyNumbers)
    /\ \E n \in 1..3 : ParsedDraws[n] # VNull /\ ~IsKept(ParsedDraws[n])

\* The time of the date of a returned record.
TimeOf(d) == DateTime(CHOOSE v \in MembersNamed(d, KeyDate) : TRUE)

\* The position in the parsed draws of a returned record (records carry
\* distinct ids).
InputIndex(d) == CHOOSE n \in 1..Len(ParsedDraws) : ParsedDraws[n] = d

\* C7: the returned draws are in descending order of date (each adjacent
\* pair with parsable dates), and records with equal dates keep their order
\* of the input.
C7_DescendingStable ==
    (pc = "returned" /\ upstream = "resolved" /\ ~ErrorDetailSet
        /\ Len(result.draws) > 0) =>
        /\ \A k \in 1..(Len(result.draws) - 1) :
               (~TimeOf(result.draws[k]).nan /\ ~TimeOf(result.draws[k + 1]).nan)
                   => TimeOf(result.draws[k]).t >= TimeOf(result.draws[k + 1]).t
        /\ \A j, k \in 1..Len(result.draws) :
               (/\ j < k
                /\ ~TimeOf(result.draws[j]).nan
                /\ ~TimeOf(result.draws[k]).nan
                /\ TimeOf(result.draws[j]).t = TimeOf(result.draws[k]).t)
                   => InputIndex(result.draws[j]) < InputIndex(result.draws[k])

\* C13: in the returned draws no record with an unparsable date stands before
\* a record with a parsable date.
C13_UnparsableDatesLast ==
    (pc = "returned" /\ upstream = "resolved" /\ ~ErrorDetailSet) =>
        \A j, k \in 1..Len(result.draws) :
            (j < k /\ TimeOf(result.draws[j]).nan)
                => TimeOf(result.draws[k]).nan

\* C8: when the cleaned text parses to a value without a draws sequence,
\* the result is zero draws and no errorDetail.
C8_NoDrawsSequenceIsEmpty ==
    (pc = "returned" /\ upstream = "resolved" /\ data.ok
        /\ ~DrawsIsSequence(data.val)) =>
        /\ result.draws = << >>
        /\ ~ErrorDetailSet

\* C10: an empty response text yields no draws and no errorDetail, while
\* every failure of the upstream call yields an errorDetail.
C10_EmptyTextIsNotAnError ==
    /\ (pc = "returned" /\ upstream = "resolved" /\ responseText = << >>) =>
           (result.draws = << >> /\ ~ErrorDetailSet)
    /\ (pc = "returned" /\ (upstream = "rejected" \/ ~apiKey)) => ErrorDetailSet

\* C10 witness: the call succeeded with an empty text and has returned.
C10_Witness ==
    /\ pc = "returned"
    /\ upstream = "resolved"
    /\ responseText = << >>
    /\ rawText = DefaultRawText
    /\ result = [draws |-> << >>, errorDetail |-> NoErrorDetail]

-----------------------------------------------------------------------------
(* Claims about App *)

\* C14: once App has started fetching and no fetchData call is in flight, the
\* loading state is false and none of the intervals started by fetchData is
\* still active.
C14_IdleWhenNothingInFlight ==
    (mounted # "initial" /\ inFlight = {}) =>
        /\ loadingState = FALSE
        /\ timers = {}

====
